---- MODULE Spec2Model ----
(***************************************************************************)
(* Static generation of the /sketches/<slug> pages of the site:            *)
(* getStaticPaths, getStaticProps and Post of src/pages/sketches/[slug].js *)
(* together with the library calls they make (fs, gray-matter,             *)
(* next-mdx-remote, reading-time) and the build that drives them.          *)
(*                                                                         *)
(* Strings are sequences of characters (file names) or of lexemes (file    *)
(* texts); every string operation is computed on those sequences.          *)
(***************************************************************************)
EXTENDS Integers, Sequences, FiniteSets, TLC

VARIABLES dirExists, files, build, listing, paths, calls, pages, published,
          matterCache, pass, prior

vars == <<dirExists, files, build, listing, paths, calls, pages, published,
          matterCache, pass, prior>>

(***************************************************************************)
(* Bounds of the model.                                                    *)
(***************************************************************************)
\* a freely chosen file name is made of at most MaxParts pieces ("a", ".mdx")
MaxParts == 2
\* a directory of freely named entries holds at most MaxFiles of them
MaxFiles == 2
\* a body of plain words holds at most MaxWords of them
MaxWords == 2
\* one process makes at most MaxPasses generation passes
MaxPasses == 2

(***************************************************************************)
(* JavaScript string operations, on sequences.                             *)
(***************************************************************************)
\* s.startsWith(p)
StartsWith(s, p) ==
    /\ Len(p) <= Len(s)
    /\ SubSeq(s, 1, Len(p)) = p

\* s.indexOf(p), 1-based; 0 when p does not occur (JavaScript's -1)
IndexOf(s, p) ==
    LET hits == { i \in 1..(Len(s) - Len(p) + 1) : SubSeq(s, i, i + Len(p) - 1) = p }
    IN  IF hits = {} THEN 0 ELSE CHOOSE i \in hits : \A j \in hits : i <= j

\* s.slice(n), n a 0-based offset
Drop(s, n) == SubSeq(s, n + 1, Len(s))

\* s.replace(p, r) with a string pattern: the FIRST occurrence only, anywhere
Replace(s, p, r) ==
    LET i == IndexOf(s, p)
    IN  IF i = 0 THEN s
        ELSE SubSeq(s, 1, i - 1) \o r \o Drop(s, i - 1 + Len(p))

\* the orderings of a finite set
Orderings(S) ==
    { q \in [1..Cardinality(S) -> S] : \A i, j \in 1..Cardinality(S) : q[i] = q[j] => i = j }

Range(q) == { q[i] : i \in DOMAIN q }

(***************************************************************************)
(* File names.                                                             *)
(***************************************************************************)
MdxExt == <<".", "m", "d", "x">>

Pieces == { <<"a">>, MdxExt }

RECURSIVE NamesOf(_)
NamesOf(n) ==
    IF n = 0 THEN { << >> }
    ELSE { p \o r : p \in Pieces, r \in NamesOf(n - 1) }

\* the non-empty names of at most MaxParts pieces
Names == UNION { NamesOf(n) : n \in 1..MaxParts }

\* the two entries of the store of the documents under study
NameA == <<"a">> \o MdxExt
NameB == <<"b">> \o MdxExt

(***************************************************************************)
(* File texts: sequences of lexemes.  A lexeme is a white-space character, *)
(* a dash, the byte-order mark, or a run of non-white-space characters     *)
(* that no operation below looks inside.                                   *)
(***************************************************************************)
NL == "\n"
SP == " "
BOM == "BOM"
Dash == "-"
Hash == "#"
Brace == "{"

KeyToks == { "title:", "theme:", "thumbnail:" }

\* the key a "key:" lexeme denotes
KeyName(t) ==
    IF t = "title:" THEN "title" ELSE IF t = "theme:" THEN "theme" ELSE "thumbnail"

WhiteSpace == { NL, SP }

Delim == <<Dash, Dash, Dash>>

\* the component tags of the texts and the name each refers to
TagName(t) ==
    CASE t = "<LightningCard/>" -> "LightningCard"
      [] t = "<Foo/>" -> "Foo"
      [] OTHER -> ""

IsTag(t) == TagName(t) # ""

\* the registry of custom components handed to MDXRemote
components == { "LightningCard" }

\* the metadata blocks of the documents under study
Fronts ==
    { << >>,
      Delim \o <<NL, "title:", SP, "Hello", NL>> \o Delim \o <<NL>>,
      Delim \o <<NL, "title:", SP, "Hello", NL, "theme:", SP, "dark", NL>> \o Delim \o <<NL>>,
      Delim \o <<NL, "title:", SP, "Hello", NL>>,
      Delim \o <<NL, Brace, NL>> \o Delim \o <<NL>>,
      Delim \o <<NL, "title:", SP, "Hello", NL, "title:", SP, "Hello", NL>> \o Delim \o <<NL>>,
      Delim \o <<NL, "thumbnail:", SP, "t.png", NL>> \o Delim \o <<NL>>,
      Delim \o <<NL, "thumbnail:", NL, "theme:", SP, "light", NL>> \o Delim \o <<NL>>,
      Delim \o <<Dash, NL>> }

\* a paragraph of n words
RECURSIVE WordsRun(_)
WordsRun(n) ==
    IF n = 0 THEN << >>
    ELSE IF n = 1 THEN <<"Hi">>
    ELSE <<"Hi", SP>> \o WordsRun(n - 1)

\* the bodies of the documents under study
Bodies ==
    { <<Hash, SP, "Hi">>,
      <<"Hi", SP, "Hi", NL, "<LightningCard/>">>,
      <<"<Foo/>">>,
      <<Brace>> }
    \cup { WordsRun(n) : n \in 0..MaxWords }

Boms == { << >>, <<BOM>> }

\* the texts a file of the store may hold
Docs == { b \o f \o c : b \in Boms, f \in Fronts, c \in Bodies }

\* a text whose metadata block gives one key twice
DupKeyDoc ==
    Delim \o <<NL, "title:", SP, "Hello", NL, "title:", SP, "Hello", NL>> \o Delim \o <<NL, "Hi">>

\* the texts b.mdx may hold beside a.mdx (or the text of a.mdx again)
SecondDocs ==
    { <<Hash, SP, "Hi">>,
      Delim \o <<NL, "title:", SP, "Hello", NL>> \o Delim \o <<NL, "Hi">>,
      Delim \o <<NL, Brace, NL>> \o Delim \o <<NL, "Hi">>,
      DupKeyDoc }

\* a text with no metadata block, the content of freely named entries
PlainDoc == <<Hash, SP, "Hi">>

(***************************************************************************)
(* Values and errors.                                                      *)
(***************************************************************************)
NoError == [name |-> "none", path |-> << >>]

\* an Error object: its name and the file path its message carries, if any
Err(n, p) == [name |-> n, path |-> p]

\* the empty object {}
EmptyData == [kind |-> "map", map |-> << >>]

(***************************************************************************)
(* js-yaml, as gray-matter's default engine applies it to a block.         *)
(***************************************************************************)
\* s.split("\n")
RECURSIVE Lines(_)
Lines(s) ==
    LET i == IndexOf(s, <<NL>>)
    IN  IF i = 0 THEN <<s>>
        ELSE <<SubSeq(s, 1, i - 1)>> \o Lines(Drop(s, i))

\* s.trim() on a line: the spaces at both ends removed
RECURSIVE TrimLeft(_)
TrimLeft(s) == IF s # << >> /\ Head(s) \in WhiteSpace THEN TrimLeft(Tail(s)) ELSE s

RECURSIVE TrimRight(_)
TrimRight(s) ==
    IF s # << >> /\ s[Len(s)] \in WhiteSpace THEN TrimRight(SubSeq(s, 1, Len(s) - 1)) ELSE s

Trim(s) == TrimRight(TrimLeft(s))

IsBlank(l) == Trim(l) = << >>

IsComment(l) == ~IsBlank(l) /\ Head(Trim(l)) = Hash

\* "key: value" or "key:"
IsEntry(l) ==
    LET t == Trim(l)
    IN  /\ t # << >>
        /\ Head(t) \in KeyToks
        /\ \/ Len(t) = 1
           \/ /\ Len(t) = 3
              /\ t[2] = SP
              /\ t[3] \notin WhiteSpace \cup KeyToks \cup {Brace, Hash}

EntryKey(l) == KeyName(Head(Trim(l)))

EntryValue(l) == IF Len(Trim(l)) = 3 THEN Trim(l)[3] ELSE "null"

\* yaml.load(block): [threw, data]
Yaml(block) ==
    LET ls      == Lines(block)
        content == { i \in DOMAIN ls : ~IsBlank(ls[i]) /\ ~IsComment(ls[i]) }
        entries == { i \in content : IsEntry(ls[i]) }
        others  == content \ entries
        dup     == \E i, j \in entries : i # j /\ EntryKey(ls[i]) = EntryKey(ls[j])
        flow    == \E i \in content : \E k \in DOMAIN ls[i] : ls[i][k] = Brace
        keys    == { EntryKey(ls[i]) : i \in entries }
    IN  IF flow \/ dup \/ (entries # {} /\ others # {})
        THEN [threw |-> TRUE, data |-> EmptyData]
        ELSE IF others # {}
        THEN [threw |-> FALSE, data |-> [kind |-> "scalar", map |-> << >>]]
        ELSE [threw |-> FALSE,
              data |-> [kind |-> "map",
                        map |-> [k \in keys |->
                                   EntryValue(ls[CHOOSE i \in entries : EntryKey(ls[i]) = k])]]]

(***************************************************************************)
(* gray-matter: matter(input) with no options.                             *)
(***************************************************************************)
\* strip-bom-string, applied by toFile to the input
StripBom(s) == IF s # << >> /\ Head(s) = BOM THEN Tail(s) ELSE s

\* the file object toFile builds, before the metadata block is parsed
ToFile(input) == [data |-> EmptyData, content |-> StripBom(input)]

\* parseMatter(file) that keeps the line break after the closing delimiter
ParseMatterKeepNewline(file) ==
    LET str   == file.content
        s1    == Drop(str, Len(Delim))
        nl    == IndexOf(s1, <<NL>>)
        \* str.slice(0, str.search(/\r?\n/)): the text after the opening delimiter
        raw   == IF nl = 0 THEN SubSeq(s1, 1, Len(s1) - 1) ELSE SubSeq(s1, 1, nl - 1)
        lang  == Trim(raw)
        s2    == IF lang # << >> THEN Drop(s1, Len(raw)) ELSE s1
        close == IndexOf(s2, <<NL>> \o Delim)
        block == IF close = 0 THEN s2 ELSE SubSeq(s2, 1, close - 1)
        empty == \A i \in DOMAIN Lines(block) :
                    IsBlank(Lines(block)[i]) \/ IsComment(Lines(block)[i])
        y     == Yaml(block)
        rest  == IF close = 0 THEN << >> ELSE Drop(s2, close - 1 + Len(Delim) + 1)
        body  == rest
    IN  IF ~StartsWith(str, Delim)
        THEN [threw |-> FALSE, error |-> NoError, file |-> file]
        ELSE IF Len(str) > Len(Delim) /\ str[Len(Delim) + 1] = Dash
        THEN [threw |-> FALSE, error |-> NoError, file |-> file]
        ELSE IF empty
        THEN [threw |-> FALSE, error |-> NoError,
              file |-> [data |-> EmptyData, content |-> body]]
        ELSE IF lang # << >>
        THEN [threw |-> TRUE, error |-> Err("EngineError", << >>), file |-> file]
        ELSE IF y.threw
        THEN [threw |-> TRUE, error |-> Err("YAMLException", << >>), file |-> file]
        ELSE [threw |-> FALSE, error |-> NoError,
              file |-> [data |-> y.data, content |-> body]]

\* parseMatter(file): [threw, error, file]
ParseMatter(file) ==
    LET str   == file.content
        s1    == Drop(str, Len(Delim))
        nl    == IndexOf(s1, <<NL>>)
        \* str.slice(0, str.search(/\r?\n/)): the text after the opening delimiter
        raw   == IF nl = 0 THEN SubSeq(s1, 1, Len(s1) - 1) ELSE SubSeq(s1, 1, nl - 1)
        lang  == Trim(raw)
        s2    == IF lang # << >> THEN Drop(s1, Len(raw)) ELSE s1
        close == IndexOf(s2, <<NL>> \o Delim)
        block == IF close = 0 THEN s2 ELSE SubSeq(s2, 1, close - 1)
        empty == \A i \in DOMAIN Lines(block) :
                    IsBlank(Lines(block)[i]) \/ IsComment(Lines(block)[i])
        y     == Yaml(block)
        rest  == IF close = 0 THEN << >> ELSE Drop(s2, close - 1 + Len(Delim) + 1)
        body  == IF rest # << >> /\ Head(rest) = NL THEN Tail(rest) ELSE rest
    IN  IF ~StartsWith(str, Delim)
        THEN [threw |-> FALSE, error |-> NoError, file |-> file]
        ELSE IF Len(str) > Len(Delim) /\ str[Len(Delim) + 1] = Dash
        THEN [threw |-> FALSE, error |-> NoError, file |-> file]
        ELSE IF empty
        THEN [threw |-> FALSE, error |-> NoError,
              file |-> [data |-> EmptyData, content |-> body]]
        ELSE IF lang # << >>
        THEN [threw |-> TRUE, error |-> Err("EngineError", << >>), file |-> file]
        ELSE IF y.threw
        THEN [threw |-> TRUE, error |-> Err("YAMLException", << >>), file |-> file]
        ELSE [threw |-> FALSE, error |-> NoError,
              file |-> [data |-> y.data, content |-> body]]

\* matter(input) that leaves a byte-order mark in place
MatterKeepBom(input, cache) ==
    LET r == ParseMatter([data |-> EmptyData, content |-> input])
    IN  [threw |-> r.threw, error |-> r.error, file |-> r.file, cache |-> cache]

\* matter(input), cache the value of matter.cache: [threw, error, file, cache].
\* The file object is stored in the cache before it is parsed and parsed in
\* place, so a parse that throws leaves the unparsed object behind.
Matter(input, cache) ==
    LET f == ToFile(input)
        r == ParseMatter(f)
    IN  IF input = << >>
        THEN [threw |-> FALSE, error |-> NoError,
              file |-> [data |-> EmptyData, content |-> input], cache |-> cache]
        ELSE IF f.content \in DOMAIN cache
        THEN [threw |-> FALSE, error |-> NoError, file |-> cache[f.content], cache |-> cache]
        ELSE [threw |-> r.threw, error |-> r.error, file |-> r.file,
              cache |-> [t \in DOMAIN cache \cup {f.content} |->
                           IF t = f.content THEN r.file ELSE cache[t]]]

(***************************************************************************)
(* next-mdx-remote: serialize(content).                                    *)
(***************************************************************************)
IsAtx(t) == t # << >> /\ Head(t) = Hash /\ (Len(t) = 1 \/ t[2] = SP)

IsDashes(t) == Len(t) >= Len(Delim) /\ \A i \in DOMAIN t : t[i] = Dash

\* the node a finished paragraph becomes
Para(para) ==
    IF para = << >> THEN << >>
    ELSE IF Len(para) = 1 /\ IsTag(para[1])
    THEN << [type |-> "jsx", children |-> para] >>
    ELSE << [type |-> "p", children |-> para] >>

\* the block nodes of the lines ls; para is the paragraph being collected
RECURSIVE MdBlocks(_, _, _)
MdBlocks(ls, para, out) ==
    IF ls = << >> THEN out \o Para(para)
    ELSE LET t == Trim(Head(ls))
         IN  IF t = << >>
             THEN MdBlocks(Tail(ls), << >>, out \o Para(para))
             ELSE IF IsAtx(t)
             THEN MdBlocks(Tail(ls), << >>,
                           out \o Para(para)
                               \o << [type |-> "h1", children |-> Trim(Drop(t, 1))] >>)
             ELSE IF IsDashes(t)
             THEN MdBlocks(Tail(ls), << >>,
                           out \o (IF para = << >>
                                   THEN << [type |-> "hr", children |-> << >>] >>
                                   ELSE << [type |-> "h2", children |-> para] >>))
             ELSE MdBlocks(Tail(ls), IF para = << >> THEN t ELSE para \o <<NL>> \o t, out)

\* the component names a compiled source refers to
TagsOf(src) ==
    UNION { { TagName(src[i].children[k]) : k \in DOMAIN src[i].children } :
            i \in DOMAIN src } \ { "" }

\* serialize(content) that resolves the tags against the registry as it compiles
SerializeChecked(content) ==
    LET unknown == { TagName(content[i]) : i \in DOMAIN content } \ (components \cup {""})
    IN  IF \E i \in DOMAIN content : content[i] = Brace
        THEN [threw |-> TRUE, error |-> Err("MDXError", << >>), mdxSource |-> << >>]
        ELSE IF unknown # {}
        THEN [threw |-> TRUE, error |-> Err("CompileError", << >>), mdxSource |-> << >>]
        ELSE [threw |-> FALSE, error |-> NoError,
              mdxSource |-> [compiledSource |-> MdBlocks(Lines(content), << >>, << >>)]]

\* serialize(content): [threw, error, mdxSource].  It is given the text only.
Serialize(content) ==
    IF \E i \in DOMAIN content : content[i] = Brace
    THEN [threw |-> TRUE, error |-> Err("MDXError", << >>), mdxSource |-> << >>]
    ELSE [threw |-> FALSE, error |-> NoError,
          mdxSource |-> [compiledSource |-> MdBlocks(Lines(content), << >>, << >>)]]

(***************************************************************************)
(* reading-time: readingTime(content).minutes.                             *)
(***************************************************************************)
WordsPerMinute == 200

\* the number of maximal runs of non-white-space lexemes
WordCount(s) ==
    Cardinality({ i \in DOMAIN s :
                    /\ s[i] \notin WhiteSpace
                    /\ (i = Len(s) \/ s[i + 1] \in WhiteSpace) })

\* the least whole number of minutes that is at least n / d
CeilDiv(n, d) == (n + d - 1) \div d

\* a reading time rounded up to whole minutes
MinutesCeil(content) == [num |-> CeilDiv(WordCount(content), WordsPerMinute), den |-> 1]

\* a reading time whose word count is text.split(/\s+/).length, 1 for no text
MinutesSplit(content) ==
    [num |-> IF WordCount(content) = 0 THEN 1 ELSE WordCount(content), den |-> WordsPerMinute]

\* .minutes: words / wordsPerMinute, a fraction num/den that is not rounded
Minutes(content) == [num |-> WordCount(content), den |-> WordsPerMinute]

(***************************************************************************)
(* src/pages/sketches/[slug].js                                            *)
(***************************************************************************)
\* the value of a call that has not returned
NoPaths == [status |-> "none", paths |-> << >>, fallback |-> FALSE, error |-> NoError]

\* file.replace(".mdx", "")
SlugOf(file) == Replace(file, MdxExt, << >>)

\* files.map((file) => ({ params: { slug: file.replace(".mdx", "") } }))
PathsOf(ls) == [i \in DOMAIN ls |-> [params |-> [slug |-> SlugOf(ls[i])]]]

\* the slugs of a paths array
SlugsOf(ps) == { ps[i].params.slug : i \in DOMAIN ps }

\* path.join("data/sketches", slug + ".mdx"), relative to data/sketches
PathOf(slug) == slug \o MdxExt

\* a getStaticProps call that has not started
IdleCall(slug) ==
    [pc |-> "idle", slug |-> slug, path |-> << >>, file |-> << >>,
     result |-> << >>, error |-> NoError]

\* a page that has not been rendered
NoPage == [status |-> "none", page |-> << >>, error |-> NoError]

\* getStaticPaths that answers a missing directory with no paths
GetStaticPathsLenient ==
    /\ build = "start"
    /\ \E order \in Orderings(IF dirExists THEN DOMAIN files ELSE {}) :
          /\ listing' = order
          /\ paths' = [status |-> "returned", paths |-> PathsOf(order),
                       fallback |-> FALSE, error |-> NoError]
          /\ calls' = [g \in SlugsOf(PathsOf(order)) |-> IdleCall(g)]
          /\ pages' = [g \in SlugsOf(PathsOf(order)) |-> NoPage]
    /\ build' = "generating"
    /\ UNCHANGED <<dirExists, files, published, matterCache>>
    /\ UNCHANGED <<pass, prior>>

\* getStaticPaths with fallback: true, and a build that also generates the
\* route of a slug it was not given
GetStaticPathsFallback ==
    /\ build = "start"
    /\ IF dirExists
       THEN \E order \in Orderings(DOMAIN files) :
               /\ listing' = order
               /\ paths' = [status |-> "returned", paths |-> PathsOf(order),
                            fallback |-> TRUE, error |-> NoError]
               /\ calls' = [g \in SlugsOf(PathsOf(order)) \cup { <<"z">> } |-> IdleCall(g)]
               /\ pages' = [g \in SlugsOf(PathsOf(order)) \cup { <<"z">> } |-> NoPage]
               /\ build' = "generating"
       ELSE /\ paths' = [status |-> "threw", paths |-> << >>, fallback |-> FALSE,
                         error |-> Err("ENOENT", << >>)]
            /\ build' = "failed"
            /\ UNCHANGED <<listing, calls, pages>>
    /\ UNCHANGED <<dirExists, files, published, matterCache>>
    /\ UNCHANGED <<pass, prior>>

\* getStaticPaths(), and the build taking its paths (a set: equal paths are one)
GetStaticPaths ==
    /\ build = "start"
    /\ IF dirExists
       THEN \E order \in Orderings(DOMAIN files) :
               /\ listing' = order
               /\ paths' = [status |-> "returned", paths |-> PathsOf(order),
                            fallback |-> FALSE, error |-> NoError]
               /\ calls' = [g \in SlugsOf(PathsOf(order)) |-> IdleCall(g)]
               /\ pages' = [g \in SlugsOf(PathsOf(order)) |-> NoPage]
               /\ build' = "generating"
       ELSE /\ paths' = [status |-> "threw", paths |-> << >>, fallback |-> FALSE,
                         error |-> Err("ENOENT", << >>)]
            /\ build' = "failed"
            /\ UNCHANGED <<listing, calls, pages>>
    /\ UNCHANGED <<dirExists, files, published, matterCache>>
    /\ UNCHANGED <<pass, prior>>

\* getStaticProps up to its await: readFileSync, matter, the call of serialize
GetStaticPropsBegin(slug) ==
    /\ build = "generating"
    /\ slug \in DOMAIN calls
    /\ calls[slug].pc = "idle"
    /\ LET path == PathOf(slug)
           m    == Matter(files[path], matterCache)
       IN  IF path \notin DOMAIN files
           THEN /\ calls' = [calls EXCEPT ![slug] =
                               [@ EXCEPT !.pc = "threw", !.path = path,
                                         !.error = Err("ENOENT", path)]]
                /\ UNCHANGED matterCache
           ELSE /\ matterCache' = m.cache
                /\ calls' = [calls EXCEPT ![slug] =
                               IF m.threw
                               THEN [@ EXCEPT !.pc = "threw", !.path = path,
                                              !.error = m.error]
                               ELSE [@ EXCEPT !.pc = "await", !.path = path,
                                              !.file = <<m.file>>]]
    /\ UNCHANGED <<dirExists, files, build, listing, paths, pages, published>>
    /\ UNCHANGED <<pass, prior>>

\* getStaticProps that compiles the whole text of the file, block included
GetStaticPropsResumeWholeText(slug) ==
    /\ build = "generating"
    /\ slug \in DOMAIN calls
    /\ calls[slug].pc = "await"
    /\ LET content == calls[slug].file[1].content
           z       == Serialize(StripBom(files[calls[slug].path]))
       IN  calls' = [calls EXCEPT ![slug] =
                       IF z.threw
                       THEN [@ EXCEPT !.pc = "threw", !.error = z.error]
                       ELSE [@ EXCEPT !.pc = "returned",
                                      !.result = << [frontMatter |-> calls[slug].file[1].data,
                                                     slug        |-> slug,
                                                     mdxSource   |-> z.mdxSource,
                                                     readTime    |-> Minutes(content)] >>]]
    /\ UNCHANGED <<dirExists, files, build, listing, paths, pages, published, matterCache>>
    /\ UNCHANGED <<pass, prior>>

\* getStaticProps from its await on: the compiled source, readingTime, return
GetStaticPropsResume(slug) ==
    /\ build = "generating"
    /\ slug \in DOMAIN calls
    /\ calls[slug].pc = "await"
    /\ LET content == calls[slug].file[1].content
           z       == Serialize(content)
       IN  calls' = [calls EXCEPT ![slug] =
                       IF z.threw
                       THEN [@ EXCEPT !.pc = "threw", !.error = z.error]
                       ELSE [@ EXCEPT !.pc = "returned",
                                      !.result = << [frontMatter |-> calls[slug].file[1].data,
                                                     slug        |-> slug,
                                                     mdxSource   |-> z.mdxSource,
                                                     readTime    |-> Minutes(content)] >>]]
    /\ UNCHANGED <<dirExists, files, build, listing, paths, pages, published, matterCache>>
    /\ UNCHANGED <<pass, prior>>

\* frontMatter.key, "undefined" when the key is absent
Get(frontMatter, key) ==
    IF frontMatter.kind = "map" /\ key \in DOMAIN frontMatter.map
    THEN frontMatter.map[key]
    ELSE "undefined"

\* a test that takes every value of a key that is written for true
TruthyIfWritten(v) == v # "undefined"

\* the truthiness of a front-matter value
Truthy(v) == v \notin { "undefined", "null", "" }

\* <MDXRemote {...mdxSource} components={components} />: the nodes, each tag
\* looked up in the registry; a tag it does not hold becomes a placeholder
RenderBody(src) ==
    [i \in DOMAIN src |->
       [type |-> src[i].type,
        children |-> [k \in DOMAIN src[i].children |->
                        IF IsTag(src[i].children[k])
                           /\ TagName(src[i].children[k]) \notin components
                        THEN "<div/>"
                        ELSE src[i].children[k]]]]

\* Post(props): [threw, error, page].  onMissing is what the installed
\* MDX runtime does with a tag the registry does not hold: "placeholder" or "throw".
Post(props, onMissing) ==
    LET fm   == props.frontMatter
        src  == props.mdxSource.compiledSource
    IN  IF TagsOf(src) \ components # {} /\ onMissing = "throw"
        THEN [threw |-> TRUE, error |-> Err("ReferenceError", << >>), page |-> << >>]
        ELSE [threw |-> FALSE, error |-> NoError,
              page |-> << [title     |-> Get(fm, "title"),
                           date      |-> Get(fm, "date"),
                           thumbnail |-> Truthy(Get(fm, "thumbnail")),
                           dark      |-> Get(fm, "theme") = "dark",
                           body      |-> RenderBody(src)] >>]

\* a render that writes the text it was given back without its byte-order mark
RenderPostNormalising(slug) ==
    /\ build = "generating"
    /\ slug \in DOMAIN calls
    /\ calls[slug].pc = "returned"
    /\ pages[slug].status = "none"
    /\ \E onMissing \in { "placeholder", "throw" } :
          LET r == Post(calls[slug].result[1], onMissing)
          IN  pages' = [pages EXCEPT ![slug] =
                          IF r.threw
                          THEN [status |-> "threw", page |-> << >>, error |-> r.error]
                          ELSE [status |-> "rendered", page |-> r.page, error |-> NoError]]
    /\ files' = [files EXCEPT ![calls[slug].path] = StripBom(@)]
    /\ UNCHANGED <<dirExists, build, listing, paths, calls, published, matterCache>>
    /\ UNCHANGED <<pass, prior>>

\* a build that renders the page of a slug while its getStaticProps still awaits
RenderPostEarly(slug) ==
    /\ build = "generating"
    /\ slug \in DOMAIN calls
    /\ calls[slug].pc \in { "await", "returned" }
    /\ pages[slug].status = "none"
    /\ \E onMissing \in { "placeholder", "throw" } :
          LET r == IF calls[slug].pc = "returned"
                   THEN Post(calls[slug].result[1], onMissing)
                   ELSE [threw |-> FALSE, error |-> NoError, page |-> << >>]
          IN  pages' = [pages EXCEPT ![slug] =
                          IF r.threw
                          THEN [status |-> "threw", page |-> << >>, error |-> r.error]
                          ELSE [status |-> "rendered", page |-> r.page, error |-> NoError]]
    /\ UNCHANGED <<dirExists, files, build, listing, paths, calls, published, matterCache>>
    /\ UNCHANGED <<pass, prior>>

\* the build rendering Post with the props getStaticProps returned
RenderPost(slug) ==
    /\ build = "generating"
    /\ slug \in DOMAIN calls
    /\ calls[slug].pc = "returned"
    /\ pages[slug].status = "none"
    /\ \E onMissing \in { "placeholder", "throw" } :
          LET r == Post(calls[slug].result[1], onMissing)
          IN  pages' = [pages EXCEPT ![slug] =
                          IF r.threw
                          THEN [status |-> "threw", page |-> << >>, error |-> r.error]
                          ELSE [status |-> "rendered", page |-> r.page, error |-> NoError]]
    /\ UNCHANGED <<dirExists, files, build, listing, paths, calls, published, matterCache>>
    /\ UNCHANGED <<pass, prior>>

\* a path of the build has been dealt with: its props failed or its page was tried
Settled(slug) == calls[slug].pc = "threw" \/ pages[slug].status # "none"

\* a path of the build failed
Failed(slug) == calls[slug].pc = "threw" \/ pages[slug].status = "threw"

\* the end of the build: an error that getStaticProps or Post let escape
\* fails the export, and nothing is published
FinishBuild ==
    /\ build = "generating"
    /\ \A g \in DOMAIN calls : Settled(g)
    /\ IF \E g \in DOMAIN calls : Failed(g)
       THEN build' = "failed" /\ published' = {}
       ELSE build' = "done" /\ published' = DOMAIN calls
    /\ UNCHANGED <<dirExists, files, listing, paths, calls, pages, matterCache>>
    /\ UNCHANGED <<pass, prior>>

(***************************************************************************)
(* The content store and the build.                                        *)
(***************************************************************************)
\* data/sketches with freely named entries, or no such directory
InitNames ==
    /\ dirExists \in BOOLEAN
    /\ \E S \in SUBSET Names :
          /\ Cardinality(S) <= MaxFiles
          /\ dirExists \/ S = {}
          /\ files = [f \in S |-> PlainDoc]

\* data/sketches holding a.mdx, b.mdx or both, with the texts under study
InitDocs ==
    /\ dirExists = TRUE
    /\ \/ files = << >>
       \/ \E d \in Docs : files = [f \in { NameA } |-> d]
       \/ \E d \in Docs : \E e \in SecondDocs \cup { d } :
             files = [f \in { NameA, NameB } |-> IF f = NameA THEN d ELSE e]

\* no build has begun
Fresh ==
    /\ build = "start"
    /\ listing = << >>
    /\ paths = NoPaths
    /\ calls = << >>
    /\ pages = << >>
    /\ published = {}
    /\ matterCache = << >>
    /\ pass = 1
    /\ prior = << >>

Init == (InitNames \/ InitDocs) /\ Fresh

Next ==
    \/ GetStaticPaths
    \/ \E slug \in DOMAIN calls : GetStaticPropsBegin(slug)
    \/ \E slug \in DOMAIN calls : GetStaticPropsResume(slug)
    \/ \E slug \in DOMAIN calls : RenderPost(slug)
    \/ FinishBuild

Spec == Init /\ [][Next]_vars

\* the builds over a.mdx and b.mdx only
InitOfDocs == InitDocs /\ Fresh

SpecDocs == InitOfDocs /\ [][Next]_vars

\* what a getStaticProps call of the pass before left: how it ended, what it
\* returned, and the text it read (none when it read no file)
PriorOf(slug) ==
    [pc     |-> calls[slug].pc,
     result |-> calls[slug].result,
     error  |-> calls[slug].error,
     text   |-> IF calls[slug].path \in DOMAIN files THEN <<files[calls[slug].path]>> ELSE << >>]

\* the process generates again (a later request to the running server): the
\* module state of the libraries, matter.cache, is kept; all else starts over
NextPass ==
    /\ build \in { "done", "failed" }
    /\ pass < MaxPasses
    /\ pass' = pass + 1
    /\ prior' = [g \in DOMAIN calls |-> PriorOf(g)]
    /\ build' = "start"
    /\ listing' = << >>
    /\ paths' = NoPaths
    /\ calls' = << >>
    /\ pages' = << >>
    /\ published' = {}
    /\ UNCHANGED <<dirExists, files, matterCache>>

\* the author rewrites a.mdx between two passes
EditFile(text) ==
    /\ build = "start"
    /\ pass > 1
    /\ NameA \in DOMAIN files
    /\ files[NameA] # text
    /\ files' = [files EXCEPT ![NameA] = text]
    /\ UNCHANGED <<dirExists, build, listing, paths, calls, pages, published,
                   matterCache, pass, prior>>

\* the texts a.mdx holds at the start of a process that generates repeatedly
PassDocs ==
    { <<Hash, SP, "Hi">>,
      Delim \o <<NL, "title:", SP, "Hello", NL>> \o Delim \o <<NL, Hash, SP, "Hi">>,
      Delim \o <<NL, Brace, NL>> \o Delim \o <<NL, "Hi">>,
      DupKeyDoc,
      <<"<Foo/>">> }

InitOfPasses ==
    /\ dirExists = TRUE
    /\ \/ \E d \in PassDocs : files = [f \in { NameA } |-> d]
       \/ \E d \in PassDocs : \E e \in SecondDocs :
             files = [f \in { NameA, NameB } |-> IF f = NameA THEN d ELSE e]
    /\ Fresh

NextPasses ==
    \/ Next
    \/ NextPass
    \/ \E text \in SecondDocs : EditFile(text)

\* the builds of one process that generates more than once
SpecPasses == InitOfPasses /\ [][NextPasses]_vars

\* an entry that getStaticPaths listed is unlinked before getStaticProps
\* has run for its slug
DeleteFile(f) ==
    /\ build = "generating"
    /\ f \in DOMAIN files /\ f \in Range(listing)
    /\ calls[SlugOf(f)].pc = "idle"
    /\ files' = [h \in DOMAIN files \ { f } |-> files[h]]
    /\ UNCHANGED <<dirExists, build, listing, paths, calls, pages, published,
                   matterCache, pass, prior>>

\* the name an entry is moved to, one that no entry of the store has
MovedName(f) == <<"z">> \o f

\* an entry that getStaticPaths listed is renamed before getStaticProps
\* has run for its slug
RenameFile(f) ==
    /\ build = "generating"
    /\ f \in DOMAIN files /\ f \in Range(listing)
    /\ calls[SlugOf(f)].pc = "idle"
    /\ files' = [h \in (DOMAIN files \ { f }) \cup { MovedName(f) } |->
                   IF h = MovedName(f) THEN files[f] ELSE files[h]]
    /\ UNCHANGED <<dirExists, build, listing, paths, calls, pages, published,
                   matterCache, pass, prior>>

InitOfRemovals ==
    /\ \/ InitNames
       \/ /\ dirExists = TRUE
          /\ \E d \in PassDocs : \E e \in SecondDocs :
                files = [f \in { NameA, NameB } |-> IF f = NameA THEN d ELSE e]
    /\ Fresh

NextRemovals ==
    \/ Next
    \/ \E f \in DOMAIN files : DeleteFile(f)
    \/ \E f \in DOMAIN files : RenameFile(f)

\* a build during which entries of the store are removed or renamed
SpecRemovals == InitOfRemovals /\ [][NextRemovals]_vars

(***************************************************************************)
(* Properties.                                                             *)
(***************************************************************************)
\* a file name with the extension ".mdx" taken off its end, and nothing else
StripExtension(file) ==
    IF Len(MdxExt) <= Len(file) /\ SubSeq(file, Len(file) - Len(MdxExt) + 1, Len(file)) = MdxExt
    THEN SubSeq(file, 1, Len(file) - Len(MdxExt))
    ELSE file

Returned == paths.status = "returned"

\* the build has ended, after an enumeration that returned
RunOver == Returned /\ build \in { "done", "failed" }

\* C1: getStaticPaths returns one path entry per directory entry, none
\* missing and none repeated, and the slug of each entry is the entry's
\* file name with its extension stripped and nothing else changed.
C1_OnePathPerEntryExtensionStripped ==
    Returned =>
        /\ Len(paths.paths) = Len(listing)
        /\ Range(listing) = DOMAIN files
        /\ Len(listing) = Cardinality(DOMAIN files)
        /\ \A i \in DOMAIN listing :
              paths.paths[i].params.slug = StripExtension(listing[i])

\* C2: every slug getStaticPaths returns resolves back to its own file: the
\* path getStaticProps reads for the slug derived from a directory entry f
\* names an existing file of the store, and that file is f.
C2_SlugResolvesToItsFile ==
    Returned =>
        \A i \in DOMAIN listing :
            /\ PathOf(paths.paths[i].params.slug) \in DOMAIN files
            /\ PathOf(paths.paths[i].params.slug) = listing[i]

\* C3: two distinct file names never yield the same slug: the returned
\* paths hold no slug twice.
C3_NoDuplicateSlug ==
    Returned =>
        \A i, j \in DOMAIN paths.paths :
            i # j => paths.paths[i].params.slug # paths.paths[j].params.slug

\* the errors of one document: of its metadata block or of its body
DocumentErrors == { "YAMLException", "EngineError", "MDXError" }

\* C4: when getStaticProps fails for one slug of a run, every other slug
\* whose props were returned and whose page was rendered is still
\* published, and the build is not aborted.
C4_FailureIsolated ==
    RunOver =>
        \A d \in DOMAIN calls :
            (calls[d].pc = "threw" /\ calls[d].error.name \in DocumentErrors) =>
                \A g \in DOMAIN calls \ { d } :
                    (calls[g].pc = "returned" /\ pages[g].status = "rendered")
                        => (g \in published /\ build # "failed")

\* C5: after a generation run the published routes are exactly the
\* enumerated slugs that were generated successfully, and a slug whose
\* getStaticProps failed is neither published nor rendered.
C5_PublishedAreTheSucceeded ==
    RunOver =>
        /\ published = { g \in DOMAIN calls :
                           calls[g].pc = "returned" /\ pages[g].status = "rendered" }
        /\ \A g \in DOMAIN calls :
              calls[g].pc = "threw" => g \notin published /\ pages[g].status = "none"

\* C6: when the content directory is missing or unreadable, getStaticPaths
\* ends in an error and returns no paths, the build fails, and no
\* getStaticProps call and no page generation happens in that run.
C6_MissingDirectoryIsFatal ==
    (~dirExists /\ build # "start") =>
        /\ paths.status = "threw"
        /\ paths.paths = << >>
        /\ build = "failed"
        /\ DOMAIN calls = {}
        /\ DOMAIN pages = {}
        /\ published = {}

\* C6 witness: the enumeration of a missing directory has run
C6_Witness == ~dirExists /\ build = "failed" /\ paths.status = "threw"

(***************************************************************************)
(* Properties of getStaticProps.                                           *)
(***************************************************************************)
\* the call for slug has read its file
HasRead(slug) == calls[slug].pc # "idle" /\ calls[slug].path \in DOMAIN files

\* the text the call for slug read
TextOf(slug) == files[calls[slug].path]

\* the call for slug got past matter(markdown)
HasSplit(slug) == calls[slug].file # << >>

\* the call for slug has ended after its await
Compiled(slug) == HasSplit(slug) /\ calls[slug].pc \in { "returned", "threw" }

\* a text that opens a metadata block
OpensBlock(text) ==
    /\ StartsWith(text, Delim)
    /\ ~(Len(text) > Len(Delim) /\ text[Len(Delim) + 1] = Dash)

\* a text whose metadata block is opened and never closed
Unclosed(text) ==
    /\ OpensBlock(text)
    /\ IndexOf(Drop(text, Len(Delim)), <<NL>> \o Delim) = 0

\* a text whose metadata block is closed and is not valid YAML
BadYaml(text) ==
    LET s1 == Drop(text, Len(Delim))
        close == IndexOf(s1, <<NL>> \o Delim)
    IN  /\ OpensBlock(text)
        /\ close # 0
        /\ Yaml(SubSeq(s1, 1, close - 1)).threw

Malformed(text) == Unclosed(text) \/ BadYaml(text)

\* C7: for a file whose metadata block is malformed (its delimiter is
\* never closed, or the block is not valid YAML), getStaticProps ends in
\* an error and returns no props built from the malformed text.
C7_MalformedBlockIsAnError ==
    \A g \in DOMAIN calls :
        (HasRead(g) /\ Malformed(TextOf(g))) =>
            /\ calls[g].pc = "threw"
            /\ calls[g].file = << >>
            /\ calls[g].result = << >>

\* the tags of a text that the registry does not hold
UnknownTags(text) == { TagName(text[i]) : i \in DOMAIN text } \ (components \cup { "" })

C9_NoDelimiterBodyIsText ==
    \A g \in DOMAIN calls :
        (HasRead(g) /\ ~StartsWith(TextOf(g), Delim)) =>
            /\ HasSplit(g)
            /\ calls[g].file[1].data = EmptyData
            /\ calls[g].file[1].content = TextOf(g)

\* C9 as amended: for a text that, with a leading byte-order mark taken
\* off, does not begin with the delimiter, the split raises no error and
\* yields an empty frontMatter and a body equal to the text without that
\* byte-order mark (so to the text exactly when it has none).
C9_NoDelimiterBodyIsTextSansBom ==
    \A g \in DOMAIN calls :
        (HasRead(g) /\ ~StartsWith(StripBom(TextOf(g)), Delim)) =>
            /\ HasSplit(g)
            /\ calls[g].file[1].data = EmptyData
            /\ calls[g].file[1].content = StripBom(TextOf(g))
            /\ (Head(TextOf(g) \o <<SP>>) # BOM => calls[g].file[1].content = TextOf(g))

\* C9 witness: a text with a byte-order mark and no delimiter has been split
C9_Witness ==
    \E g \in DOMAIN calls :
        /\ HasRead(g) /\ HasSplit(g)
        /\ TextOf(g) # << >> /\ Head(TextOf(g)) = BOM
        /\ ~StartsWith(StripBom(TextOf(g)), Delim)
        /\ Len(calls[g].file[1].content) > 0

\* C10 as claimed: readTime is word_count / 200 rounded up to a whole
\* number of minutes, at least 1 for a body with a word in it.
C10_ReadTimeRoundedUp ==
    \A g \in DOMAIN calls :
        calls[g].pc = "returned" =>
            LET rt == calls[g].result[1].readTime
                w  == WordCount(calls[g].file[1].content)
            IN  /\ rt.num = CeilDiv(w, WordsPerMinute) * rt.den
                /\ (w > 0 => rt.num >= rt.den)

\* C10 as amended: readTime is word_count / 200 as it is, not rounded:
\* times 200 it is the word count, so a body with a word in it gets a
\* readTime above 0, and one below 1 when it has fewer than 200 words.
C10_ReadTimeIsExactQuotient ==
    \A g \in DOMAIN calls :
        calls[g].pc = "returned" =>
            LET rt == calls[g].result[1].readTime
                w  == WordCount(calls[g].file[1].content)
            IN  /\ rt.den > 0
                /\ rt.num * WordsPerMinute = w * rt.den
                /\ (w > 0 => rt.num > 0)
                /\ ((w > 0 /\ w < WordsPerMinute) => rt.num < rt.den)

\* C10 witness: props were returned for a body of two words
C10_Witness ==
    \E g \in DOMAIN calls :
        /\ calls[g].pc = "returned"
        /\ WordCount(calls[g].file[1].content) = 2

\* the call for slug returned props
HasReturned(slug) == calls[slug].pc = "returned"

\* the body and the readTime of a call that returned
BodyOf(slug) == calls[slug].file[1].content

ReadTimeOf(slug) == calls[slug].result[1].readTime

\* a <= b for two fractions num/den with positive denominators
FracLeq(a, b) == a.num * b.den <= b.num * a.den

\* C11: the reading time is monotonically non-decreasing in the word
\* count of the body (a body with more words never gets a smaller
\* readTime), and an empty body gets a readTime of zero.
C11_ReadTimeMonotoneZeroForEmpty ==
    /\ \A g, h \in DOMAIN calls :
          (HasReturned(g) /\ HasReturned(h)
             /\ WordCount(BodyOf(g)) <= WordCount(BodyOf(h)))
            => FracLeq(ReadTimeOf(g), ReadTimeOf(h))
    /\ \A g \in DOMAIN calls :
          (HasReturned(g) /\ BodyOf(g) = << >>) => ReadTimeOf(g).num = 0

\* C11 witness: props were returned for an empty body and for a longer one
C11_Witness ==
    \E g, h \in DOMAIN calls :
        /\ HasReturned(g) /\ HasReturned(h)
        /\ BodyOf(g) = << >>
        /\ WordCount(BodyOf(h)) > 0
        /\ ReadTimeOf(g).num = 0
        /\ ReadTimeOf(h).num > 0

\* getStaticProps for slug has run to its end, by a return or by a throw
Ended(c) == c.pc \in { "returned", "threw" }

\* the text now stored for the file of a call, none when the file is missing
StoredText(slug) ==
    IF PathOf(slug) \in DOMAIN files THEN <<files[PathOf(slug)]>> ELSE << >>

\* slug was run in the pass before this one, over the text stored now
RanBeforeOverSameText(slug) ==
    /\ slug \in DOMAIN prior /\ slug \in DOMAIN calls
    /\ Ended(prior[slug]) /\ Ended(calls[slug])
    /\ prior[slug].text # << >>
    /\ prior[slug].text = StoredText(slug)

\* C12: two runs of getStaticProps for the same slug over an unchanged
\* store end the same way, and when they return, with equal mdxSource,
\* frontMatter and readTime.
C12_TwoRunsSameStoreSameProps ==
    \A g \in DOMAIN calls :
        RanBeforeOverSameText(g)
          => /\ calls[g].pc = prior[g].pc
             /\ calls[g].result = prior[g].result

\* the "key:" lexeme of a key
KeyTok(k) == CHOOSE t \in KeyToks : KeyName(t) = k

\* the "key: value" lines of the keys ks of a map, in the order of ks
RECURSIVE DumpKeys(_, _)
DumpKeys(map, ks) ==
    IF ks = << >> THEN << >>
    ELSE (IF Head(ks) \in DOMAIN map
          THEN <<KeyTok(Head(ks)), SP, map[Head(ks)], NL>>
          ELSE << >>) \o DumpKeys(map, Tail(ks))

\* the serialized frontMatter and the body, joined with the delimiter
Reconcat(file) ==
    Delim \o <<NL>> \o DumpKeys(file.data.map, <<"title", "theme", "thumbnail">>)
          \o Delim \o <<NL>> \o file.content

\* C13: splitting a document, joining the serialized frontMatter and the
\* body again with the original delimiter, and splitting the result gives
\* the same frontMatter and the same body.
C13_SplitRoundTrip ==
    \A g \in DOMAIN calls :
        (calls[g].file # << >> /\ calls[g].file[1].data.kind = "map")
          => LET again == Matter(Reconcat(calls[g].file[1]), matterCache)
             IN  /\ ~again.threw
                 /\ again.file.data = calls[g].file[1].data
                 /\ again.file.content = calls[g].file[1].content

\* C13 witness: a document with a key and a body was split and splits the
\* same again
C13_Witness ==
    \E g \in DOMAIN calls :
        /\ calls[g].file # << >>
        /\ calls[g].file[1].data.kind = "map"
        /\ DOMAIN calls[g].file[1].data.map # {}
        /\ calls[g].file[1].content # << >>
        /\ Matter(Reconcat(calls[g].file[1]), matterCache).file = calls[g].file[1]

\* the well-formed metadata blocks under study, each with the keys and
\* values written between its delimiters
WrittenIn ==
    { << Delim \o <<NL, "title:", SP, "Hello", NL>> \o Delim \o <<NL>>,
         ("title" :> "Hello") >>,
      << Delim \o <<NL, "title:", SP, "Hello", NL, "theme:", SP, "dark", NL>> \o Delim \o <<NL>>,
         ("title" :> "Hello") @@ ("theme" :> "dark") >>,
      << Delim \o <<NL, "thumbnail:", SP, "t.png", NL>> \o Delim \o <<NL>>,
         ("thumbnail" :> "t.png") >>,
      << Delim \o <<NL, "thumbnail:", NL, "theme:", SP, "light", NL>> \o Delim \o <<NL>>,
         ("thumbnail" :> "null") @@ ("theme" :> "light") >> }

\* C14: for a document with a well-formed metadata block, frontMatter holds
\* exactly the keys written between the delimiters, with the values written
\* there, and mdxSource is compiled from the text after the block only.
C14_BlockIsFrontMatterRestIsBody ==
    \A g \in DOMAIN calls : \A b \in Boms : \A w \in WrittenIn : \A c \in Bodies :
        (HasReturned(g) /\ files[calls[g].path] = b \o w[1] \o c)
          => /\ calls[g].result[1].frontMatter = [kind |-> "map", map |-> w[2]]
             /\ calls[g].result[1].mdxSource = Serialize(c).mdxSource

\* C14 witness: "title: Hello" over "# Hi" gave the title Hello and one
\* heading that holds Hi
C14_Witness ==
    \E g \in DOMAIN calls :
        /\ HasReturned(g)
        /\ files[calls[g].path]
             = Delim \o <<NL, "title:", SP, "Hello", NL>> \o Delim \o <<NL, Hash, SP, "Hi">>
        /\ Get(calls[g].result[1].frontMatter, "title") = "Hello"
        /\ DOMAIN calls[g].result[1].frontMatter.map = { "title" }
        /\ calls[g].result[1].mdxSource.compiledSource
             = << [type |-> "h1", children |-> <<"Hi">>] >>

\* C15: the content store is read-only: no step of getStaticPaths,
\* getStaticProps or Post creates, changes or removes a file of it,
\* whether the step succeeds or fails.
C15_StoreIsReadOnly == [][files' = files /\ dirExists' = dirExists]_vars

\* C15 witness: a build over a store that holds files has failed after one
\* getStaticProps threw and another returned props that were rendered
C15_Witness ==
    /\ build = "failed"
    /\ files # << >>
    /\ \E g, h \in DOMAIN calls :
          /\ calls[g].pc = "threw"
          /\ HasReturned(h) /\ pages[h].status = "rendered"

\* how getStaticProps for slug ends over text when it is the only call the
\* process ever makes
Alone(slug, text) ==
    LET m == Matter(text, << >>)
        z == Serialize(m.file.content)
    IN  IF m.threw \/ z.threw
        THEN [pc |-> "threw", result |-> << >>]
        ELSE [pc |-> "returned",
              result |-> << [frontMatter |-> m.file.data,
                             slug        |-> slug,
                             mdxSource   |-> z.mdxSource,
                             readTime    |-> Minutes(m.file.content)] >>]

\* C16: the getStaticProps calls for different slugs are independent under
\* every interleaving: each ends as it would if it were the only call, with
\* the same props, and shares no mutable state with the others.
C16_EachCallAsIfAlone ==
    \A g \in DOMAIN calls :
        (Ended(calls[g]) /\ calls[g].path \in DOMAIN files)
          => /\ calls[g].pc = Alone(g, files[calls[g].path]).pc
             /\ calls[g].result = Alone(g, files[calls[g].path]).result

\* the slugs getStaticPaths returned
Enumerated == SlugsOf(paths.paths)

RanBeforeOverOtherText(slug) ==
    /\ slug \in DOMAIN prior /\ slug \in DOMAIN calls
    /\ Ended(prior[slug]) /\ Ended(calls[slug])
    /\ prior[slug].text # << >> /\ StoredText(slug) # << >>
    /\ prior[slug].text # StoredText(slug)

\* C18: nothing is cached across passes: when the content of a slug was
\* changed between two getStaticProps calls for it, the second call ends
\* with the results of the new content, as computed from nothing else.
C18_SecondCallSeesNewContentOnly ==
    \A g \in DOMAIN calls :
        RanBeforeOverOtherText(g)
          => /\ calls[g].pc = Alone(g, files[PathOf(g)]).pc
             /\ calls[g].result = Alone(g, files[PathOf(g)]).result

\* C19: the steps are ordered: Post renders a slug only after getStaticProps
\* returned props for it, getStaticProps runs for a slug only after
\* getStaticPaths returned it, and inside getStaticProps the split comes
\* before the compile and the reading-time computation.
C19_StepsInOrder ==
    \A g \in DOMAIN calls :
        /\ pages[g].status # "none" => HasReturned(g)
        /\ calls[g].pc # "idle" => (Returned /\ g \in Enumerated)
        /\ calls[g].pc = "await" => (calls[g].file # << >> /\ calls[g].result = << >>)
        /\ calls[g].result # << >>
             => /\ calls[g].file # << >>
                /\ calls[g].result[1].mdxSource = Serialize(BodyOf(g)).mdxSource
                /\ calls[g].result[1].readTime = Minutes(BodyOf(g))

\* C19 witness: a page was rendered from props that were compiled from the
\* body the split gave, while another call still awaits its compile
C19_Witness ==
    \E g, h \in DOMAIN calls :
        /\ pages[g].status = "rendered" /\ HasReturned(g)
        /\ calls[g].file # << >> /\ g \in Enumerated
        /\ calls[h].pc = "await" /\ pages[h].status = "none"

\* the metadata blocks that parse: none at all, or one of the well-formed
BlocksThatParse == { << >> } \cup { w[1] : w \in WrittenIn }

\* key is written in the frontMatter fm with a value that is not empty
PresentNonEmpty(fm, key) ==
    /\ fm.kind = "map"
    /\ key \in DOMAIN fm.map
    /\ fm.map[key] \notin { "", "null" }

\* C20: no front-matter key is required: whichever keys are absent,
\* getStaticProps succeeds and Post renders without error; an absent key
\* gives an absent value, the thumbnail is rendered if and only if
\* frontMatter.thumbnail is present and not empty, and the dark background
\* is used if and only if frontMatter.theme is "dark".
C20_NoKeyRequired ==
    \A g \in DOMAIN calls :
        /\ \A b \in Boms : \A f \in BlocksThatParse : \A c \in Bodies :
              (Ended(calls[g]) /\ files[calls[g].path] = b \o f \o c /\ ~Serialize(c).threw)
                => HasReturned(g)
        /\ pages[g].status = "threw"
              => TagsOf(calls[g].result[1].mdxSource.compiledSource) \ components # {}
        /\ pages[g].status = "rendered"
              => LET fm   == calls[g].result[1].frontMatter
                     page == pages[g].page[1]
                 IN  /\ page.thumbnail <=> PresentNonEmpty(fm, "thumbnail")
                     /\ page.dark <=> (fm.kind = "map" /\ "theme" \in DOMAIN fm.map
                                         /\ fm.map["theme"] = "dark")
                     /\ \A k \in { "title", "date" } :
                           (fm.kind = "map" /\ k \notin DOMAIN fm.map)
                             => page[k] = "undefined"

\* C20 witness: a page with no key at all was rendered with no thumbnail, no
\* dark background and no title, beside one whose thumbnail was rendered
C20_Witness ==
    \E g, h \in DOMAIN calls :
        /\ pages[g].status = "rendered" /\ pages[h].status = "rendered"
        /\ calls[g].result[1].frontMatter = EmptyData
        /\ ~pages[g].page[1].thumbnail /\ ~pages[g].page[1].dark
        /\ pages[g].page[1].title = "undefined"
        /\ Get(calls[h].result[1].frontMatter, "thumbnail") = "t.png"
        /\ pages[h].page[1].thumbnail

\* the metadata blocks a body can follow: none, or one that is opened and
\* closed by the delimiter
DelimitedBlocks ==
    { << >> } \cup
    { f \in Fronts : /\ Len(f) > Len(Delim) + 2
                     /\ SubSeq(f, Len(f) - Len(Delim), Len(f)) = Delim \o <<NL>> }

\* the text of the file of slug is the metadata block f followed by the body c
IsBlockThenBody(slug, f, c) ==
    /\ calls[slug].path \in DOMAIN files
    /\ \E b \in Boms : files[calls[slug].path] = b \o f \o c

\* C21: the front matter does not influence the body-derived outputs: two
\* files with the same body text and different metadata blocks get the same
\* readTime and the same mdxSource, and the words inside a metadata block
\* are never counted in the reading time.
C21_BodyOutputsIgnoreBlock ==
    /\ \A g, h \in DOMAIN calls : \A f1, f2 \in DelimitedBlocks : \A c \in Bodies :
          (HasReturned(g) /\ HasReturned(h) /\ f1 # f2
             /\ IsBlockThenBody(g, f1, c) /\ IsBlockThenBody(h, f2, c))
            => /\ ReadTimeOf(g) = ReadTimeOf(h)
               /\ calls[g].result[1].mdxSource = calls[h].result[1].mdxSource
    /\ \A g \in DOMAIN calls : \A f \in DelimitedBlocks : \A c \in Bodies :
          (HasReturned(g) /\ IsBlockThenBody(g, f, c))
            => ReadTimeOf(g) = [num |-> WordCount(c), den |-> WordsPerMinute]

\* an entry that getStaticPaths listed for slug is no longer in the store;
\* entries are removed only before the call for their slug has begun
EntryRemoved(slug) ==
    \E i \in DOMAIN listing : SlugOf(listing[i]) = slug /\ listing[i] \notin DOMAIN files

\* C22: when a file that getStaticPaths enumerated is deleted or renamed
\* before getStaticProps runs for its slug, that call ends in an error and
\* returns no props, never props built from another file or from stale
\* content; and the slug in returned props is the slug of the call.
C22_RemovedEntryIsAnError ==
    \A g \in DOMAIN calls :
        /\ (Ended(calls[g]) /\ EntryRemoved(g))
             => (calls[g].pc = "threw" /\ calls[g].result = << >>)
        /\ HasReturned(g) => calls[g].result[1].slug = g

====
